---- MODULE Spec2Model ----
(***************************************************************************)
(* Model of chirp/configs/presets.py: the preset builders that derive the  *)
(* init/train/eval configs, the PCEN mel-spectrogram frontend descriptor   *)
(* and the supervised train/eval data pipelines from one shared base       *)
(* config, using field references into that base.                          *)
(*                                                                         *)
(* A config (ml_collections ConfigDict) is a function from field names to  *)
(* values.  The base config holds plain values.  Every other config holds  *)
(* Values, tagged tuples:                                                  *)
(*    <<"lit", v>>          a literal                                      *)
(*    <<"ref", f>>          the FieldReference config.get_ref(f): the      *)
(*                          reference object living in field f of the      *)
(*                          base config (shared, not a copy)               *)
(*    <<"floordiv", a, b>>  the lazy reference a // b                      *)
(*    <<"mul", a, b>>       the lazy reference a * b                       *)
(*    <<"tuple", a>>        the 1-tuple (a,)                               *)
(*    <<"list", s>>         a list of Values                               *)
(*    <<"call", c>>         a callable config built by _c                  *)
(***************************************************************************)
EXTENDS Integers, Sequences, FiniteSets, TLC

VARIABLES
    config,          \* the base config (function field -> value); <<>> before get_base_config
    init_config,     \* result of get_base_init_config, <<>> before the call
    train_config,    \* result of get_base_train_config, <<>> before the call
    eval_config,     \* result of get_base_eval_config, <<>> before the call
    frontend,        \* result of get_pcen_melspec_config, NoCall before the call or when it raised
    train_dataset_config,  \* result of get_supervised_train_pipeline, <<>> before the call
    eval_dataset_config,   \* result of get_supervised_eval_pipeline, <<>> before the call
    raised,          \* the exceptions raised so far, in order
    calls,           \* function: name of each builder called so far -> the arguments of the call
    num_overrides,   \* how many times the caller assigned a base field after get_base_config
    resolved         \* the parsed (reference-free) configs once parse_config has run

vars == <<config, init_config, train_config, eval_config, frontend,
          train_dataset_config, eval_dataset_config, raised, calls,
          num_overrides, resolved>>

----------------------------------------------------------------------------
(* Bounds of the model *)

\* how many assignments to base fields the caller makes after get_base_config
MaxOverrides == 1

----------------------------------------------------------------------------
(* Values and field references *)

Lit(v) == <<"lit", v>>
Ref(f) == <<"ref", f>>
FloorDiv(a, b) == <<"floordiv", a, b>>
Mul(a, b) == <<"mul", a, b>>
Tuple1(a) == <<"tuple", a>>
List(s) == <<"list", s>>
Call(c) == <<"call", c>>

IsRef(v) == v[1] = "ref"

\* _c(callable, **kwargs): records the callable's name and its keyword
\* arguments (which keep their references); constructs nothing.
callable_config(callable_, kwargs) == [callable |-> callable_, kwargs |-> kwargs]

NoCall == callable_config("", <<>>)

\* The current value of a Value against the base config: what reading the
\* field gives now, and what parse_config leaves in its place.
RECURSIVE Get(_, _)
Get(v, base) ==
    CASE v[1] = "lit" -> v[2]
      [] v[1] = "ref" -> base[v[2]]
      [] v[1] = "floordiv" -> Get(v[2], base) \div Get(v[3], base)
      [] v[1] = "mul" -> Get(v[2], base) * Get(v[3], base)
      [] v[1] = "tuple" -> <<Get(v[2], base)>>
      [] v[1] = "list" -> [i \in DOMAIN v[2] |-> Get(v[2][i], base)]
      [] v[1] = "call" ->
            [callable |-> v[2].callable,
             kwargs |-> [k \in DOMAIN v[2].kwargs |-> Get(v[2].kwargs[k], base)]]

\* Every field of a config read against the base.
ResolveConfig(cfg, base) == [k \in DOMAIN cfg |-> Get(cfg[k], base)]

\* ConfigDict.update(kwargs) on a config whose fields hold Values.  A new key
\* is added; a key holding a literal is replaced; a key holding the base's
\* FieldReference is assigned THROUGH the reference (FieldReference.set), so
\* the field keeps the reference and the base field takes the new value.
UpdateSelf(self, kwargs) ==
    [k \in DOMAIN self \cup DOMAIN kwargs |->
        IF k \notin DOMAIN kwargs THEN self[k]
        ELSE IF k \in DOMAIN self /\ IsRef(self[k]) THEN self[k]
        ELSE Lit(kwargs[k])]

UpdateBase(self, kwargs, base) ==
    [f \in DOMAIN base |->
        LET through == {k \in DOMAIN kwargs \cap DOMAIN self :
                            IsRef(self[k]) /\ self[k][2] = f}
        IN IF through = {} THEN base[f] ELSE kwargs[CHOOSE k \in through : TRUE]]

----------------------------------------------------------------------------
(* get_base_config *)

BaseDefaults ==
    [sample_rate_hz |-> 32000,
     train_window_size_s |-> 5,
     eval_window_size_s |-> 5,
     frame_rate_hz |-> 100,
     num_channels |-> 160,
     batch_size |-> 64,
     add_taxonomic_labels |-> TRUE,
     target_class_list |-> "xenocanto",
     num_train_steps |-> 1000000,
     pad_mask |-> FALSE,
     tfds_data_dir |-> ""]

\* get_base_config as it would be if only the default fields were accepted.
get_base_config_known_only(kwargs) ==
    [k \in DOMAIN BaseDefaults |->
        IF k \in DOMAIN kwargs THEN kwargs[k] ELSE BaseDefaults[k]]

\* config.update(kwargs) on the base config, whose fields are plain values.
get_base_config(kwargs) ==
    [k \in DOMAIN BaseDefaults \cup DOMAIN kwargs |->
        IF k \in DOMAIN kwargs THEN kwargs[k] ELSE BaseDefaults[k]]

\* The values callers give the swept base fields, and the kwargs they pass
\* to get_base_config: none, overrides of defaults, a field that is not among
\* the defaults.  A value always has the type of the default it replaces.
SampleRates == {40, 128, 129, 2048, 2049, 16000, 32000}
FrameRates == {1, 50, 100}
BatchSizes == {32, 64}
EmptyConfig == [k \in {} |-> TRUE]

BaseKwargs ==
    {EmptyConfig,
     [sample_rate_hz |-> 16000, frame_rate_hz |-> 50],
     [sample_rate_hz |-> 128, frame_rate_hz |-> 1],
     [sample_rate_hz |-> 2049, frame_rate_hz |-> 1],
     [sample_rate_hz |-> 40],
     [batch_size |-> 32, num_workers |-> 4]}

----------------------------------------------------------------------------
(* get_base_init_config, get_base_train_config, get_base_eval_config *)

\* What a builder hands back: the config it built and the base config as
\* the call leaves it.
Built(ret, base) == [ret |-> ret, config |-> base]

get_base_init_config(cfg, kwargs) ==
    LET init ==
          [input_shape |-> Tuple1(Mul(Ref("train_window_size_s"), Ref("sample_rate_hz"))),
           learning_rate |-> Lit("0.0001"),
           rng_seed |-> Lit(0),
           target_class_list |-> Ref("target_class_list")]
    IN Built(UpdateSelf(init, kwargs), UpdateBase(init, kwargs, cfg))

get_base_train_config(cfg, kwargs) ==
    LET train ==
          [num_train_steps |-> Ref("num_train_steps"),
           log_every_steps |-> Lit(250),
           checkpoint_every_steps |-> Lit(25000)]
    IN Built(UpdateSelf(train, kwargs), UpdateBase(train, kwargs, cfg))

get_base_eval_config(cfg, kwargs) ==
    LET eval ==
          [num_train_steps |-> Ref("num_train_steps"),
           eval_steps_per_checkpoint |-> Lit(1000),
           tflite_export |-> Lit(TRUE)]
    IN Built(UpdateSelf(eval, kwargs), UpdateBase(eval, kwargs, cfg))

InitKwargs ==
    {EmptyConfig, [target_class_list |-> "caples"], [rng_seed |-> 1]}
TrainKwargs ==
    {EmptyConfig, [num_train_steps |-> 100]}
EvalKwargs ==
    {EmptyConfig, [num_train_steps |-> 200]}

----------------------------------------------------------------------------
(* get_pcen_melspec_config *)

Return(v) == [ret |-> v, exc |-> <<>>]
Raise(e) == [ret |-> NoCall, exc |-> <<e>>]
ValueError(message) == [type |-> "ValueError", message |-> message]

\* The argument of ValueError is a plain string literal, not an f-string:
\* the braces and the name between them are its text.
LargeKernelMessage == "Large kernel {kernel_size}; please define nfft."

MelSpectrogram(frontend_stride, kernel_size, nfft) ==
    callable_config("frontend.MelSpectrogram",
        [features |-> Ref("num_channels"),
         stride |-> frontend_stride,
         kernel_size |-> kernel_size,
         nfft |-> Lit(nfft),
         sample_rate |-> Ref("sample_rate_hz"),
         freq_range |-> Lit(<<60, 10000>>),
         scaling_config |->
            Call(callable_config("frontend.PCENScalingConfig",
                                 [conv_width |-> Lit(256)]))])

\* get_pcen_melspec_config with the first bucket's boundary exclusive.
get_pcen_melspec_config_exclusive(cfg) ==
    LET frontend_stride == FloorDiv(Ref("sample_rate_hz"), Ref("frame_rate_hz"))
        kernel_size == Mul(Lit(2), frontend_stride)
        ks == Get(kernel_size, cfg)
    IN  IF ks < 256 THEN Return(MelSpectrogram(frontend_stride, kernel_size, 256))
        ELSE IF 256 <= ks /\ ks < 512
            THEN Return(MelSpectrogram(frontend_stride, kernel_size, 512))
        ELSE IF 512 <= ks /\ ks < 1024
            THEN Return(MelSpectrogram(frontend_stride, kernel_size, 1024))
        ELSE IF 1024 <= ks /\ ks < 2048
            THEN Return(MelSpectrogram(frontend_stride, kernel_size, 2048))
        ELSE IF 2048 <= ks /\ ks < 4096
            THEN Return(MelSpectrogram(frontend_stride, kernel_size, 4096))
        ELSE Raise(ValueError(LargeKernelMessage))

\* get_pcen_melspec_config with the largest nfft as the fallback of the chain.
get_pcen_melspec_config_fallback(cfg) ==
    LET frontend_stride == FloorDiv(Ref("sample_rate_hz"), Ref("frame_rate_hz"))
        kernel_size == Mul(Lit(2), frontend_stride)
        ks == Get(kernel_size, cfg)
    IN  IF ks <= 256 THEN Return(MelSpectrogram(frontend_stride, kernel_size, 256))
        ELSE IF 256 < ks /\ ks <= 512
            THEN Return(MelSpectrogram(frontend_stride, kernel_size, 512))
        ELSE IF 512 < ks /\ ks <= 1024
            THEN Return(MelSpectrogram(frontend_stride, kernel_size, 1024))
        ELSE IF 1024 < ks /\ ks <= 2048
            THEN Return(MelSpectrogram(frontend_stride, kernel_size, 2048))
        ELSE Return(MelSpectrogram(frontend_stride, kernel_size, 4096))

\* get_pcen_melspec_config rejecting a frame rate that does not divide the
\* sample rate, and a stride that is not positive.
get_pcen_melspec_config_strict(cfg) ==
    LET frontend_stride == FloorDiv(Ref("sample_rate_hz"), Ref("frame_rate_hz"))
        kernel_size == Mul(Lit(2), frontend_stride)
        ks == Get(kernel_size, cfg)
    IN  IF cfg["sample_rate_hz"] % cfg["frame_rate_hz"] # 0 \/ ks <= 0
            THEN Raise(ValueError("frame_rate_hz must divide sample_rate_hz"))
        ELSE IF ks <= 256 THEN Return(MelSpectrogram(frontend_stride, kernel_size, 256))
        ELSE IF 256 < ks /\ ks <= 512
            THEN Return(MelSpectrogram(frontend_stride, kernel_size, 512))
        ELSE IF 512 < ks /\ ks <= 1024
            THEN Return(MelSpectrogram(frontend_stride, kernel_size, 1024))
        ELSE IF 1024 < ks /\ ks <= 2048
            THEN Return(MelSpectrogram(frontend_stride, kernel_size, 2048))
        ELSE IF 2048 < ks /\ ks <= 4096
            THEN Return(MelSpectrogram(frontend_stride, kernel_size, 4096))
        ELSE Raise(ValueError(LargeKernelMessage))

\* frontend_stride and kernel_size are lazy references; each comparison of
\* the if-chain reads kernel_size's value at the time of the call, and the
\* nfft it selects is a plain integer.
get_pcen_melspec_config(cfg) ==
    LET frontend_stride == FloorDiv(Ref("sample_rate_hz"), Ref("frame_rate_hz"))
        kernel_size == Mul(Lit(2), frontend_stride)
        ks == Get(kernel_size, cfg)
    IN  IF ks <= 256 THEN Return(MelSpectrogram(frontend_stride, kernel_size, 256))
        ELSE IF 256 < ks /\ ks <= 512
            THEN Return(MelSpectrogram(frontend_stride, kernel_size, 512))
        ELSE IF 512 < ks /\ ks <= 1024
            THEN Return(MelSpectrogram(frontend_stride, kernel_size, 1024))
        ELSE IF 1024 < ks /\ ks <= 2048
            THEN Return(MelSpectrogram(frontend_stride, kernel_size, 2048))
        ELSE IF 2048 < ks /\ ks <= 4096
            THEN Return(MelSpectrogram(frontend_stride, kernel_size, 4096))
        ELSE Raise(ValueError(LargeKernelMessage))

----------------------------------------------------------------------------
(* get_supervised_train_pipeline, get_supervised_eval_pipeline *)

\* Every stage argument taken from the base is config.get_ref(field): the
\* stage holds the reference, so cfg's values at the time of the call do not
\* enter the pipeline.

\* The train stages with the batch size copied out of the base at the call.
TrainOps_batch_copied(cfg, mixin_prob) ==
    << Call(callable_config("pipeline.Shuffle", [shuffle_buffer_size |-> Lit(512)])),
       Call(callable_config("pipeline.OnlyJaxTypes", EmptyConfig)),
       Call(callable_config("pipeline.ConvertBirdTaxonomyLabels",
            [source_namespace |-> Lit("ebird2021"),
             target_class_list |-> Ref("target_class_list"),
             add_taxonomic_labels |-> Ref("add_taxonomic_labels")])),
       Call(callable_config("pipeline.MixAudio", [mixin_prob |-> Lit(mixin_prob)])),
       Call(callable_config("pipeline.Pad",
            [pad_size |-> Ref("train_window_size_s"),
             add_mask |-> Ref("pad_mask")])),
       Call(callable_config("pipeline.RandomSlice",
            [window_size |-> Ref("train_window_size_s")])),
       Call(callable_config("pipeline.Batch",
            [batch_size |-> Lit(cfg["batch_size"]),
             split_across_devices |-> Lit(TRUE)])),
       Call(callable_config("pipeline.RandomNormalizeAudio",
            [min_gain |-> Lit("0.15"), max_gain |-> Lit("0.25")])),
       Call(callable_config("pipeline.Repeat", EmptyConfig)) >>

\* The train stages with the gain normalization placed ahead of the
\* windowing and the repeat ahead of the batch.
TrainOps_reordered(cfg, mixin_prob) ==
    << Call(callable_config("pipeline.Shuffle", [shuffle_buffer_size |-> Lit(512)])),
       Call(callable_config("pipeline.OnlyJaxTypes", EmptyConfig)),
       Call(callable_config("pipeline.ConvertBirdTaxonomyLabels",
            [source_namespace |-> Lit("ebird2021"),
             target_class_list |-> Ref("target_class_list"),
             add_taxonomic_labels |-> Ref("add_taxonomic_labels")])),
       Call(callable_config("pipeline.MixAudio", [mixin_prob |-> Lit(mixin_prob)])),
       Call(callable_config("pipeline.RandomNormalizeAudio",
            [min_gain |-> Lit("0.15"), max_gain |-> Lit("0.25")])),
       Call(callable_config("pipeline.Pad",
            [pad_size |-> Ref("train_window_size_s"),
             add_mask |-> Ref("pad_mask")])),
       Call(callable_config("pipeline.RandomSlice",
            [window_size |-> Ref("train_window_size_s")])),
       Call(callable_config("pipeline.Repeat", EmptyConfig)),
       Call(callable_config("pipeline.Batch",
            [batch_size |-> Ref("batch_size"),
             split_across_devices |-> Lit(TRUE)])) >>

TrainOps(cfg, mixin_prob) ==
    << Call(callable_config("pipeline.Shuffle", [shuffle_buffer_size |-> Lit(512)])),
       Call(callable_config("pipeline.OnlyJaxTypes", EmptyConfig)),
       Call(callable_config("pipeline.ConvertBirdTaxonomyLabels",
            [source_namespace |-> Lit("ebird2021"),
             target_class_list |-> Ref("target_class_list"),
             add_taxonomic_labels |-> Ref("add_taxonomic_labels")])),
       Call(callable_config("pipeline.MixAudio", [mixin_prob |-> Lit(mixin_prob)])),
       Call(callable_config("pipeline.Pad",
            [pad_size |-> Ref("train_window_size_s"),
             add_mask |-> Ref("pad_mask")])),
       Call(callable_config("pipeline.RandomSlice",
            [window_size |-> Ref("train_window_size_s")])),
       Call(callable_config("pipeline.Batch",
            [batch_size |-> Ref("batch_size"),
             split_across_devices |-> Lit(TRUE)])),
       Call(callable_config("pipeline.RandomNormalizeAudio",
            [min_gain |-> Lit("0.15"), max_gain |-> Lit("0.25")])),
       Call(callable_config("pipeline.Repeat", EmptyConfig)) >>

get_supervised_train_pipeline(cfg, mixin_prob, train_dataset_dir) ==
    [pipeline |-> Call(callable_config("pipeline.Pipeline",
                                       [ops |-> List(TrainOps(cfg, mixin_prob))])),
     split |-> Lit("train"),
     tfds_data_dir |-> Ref("tfds_data_dir"),
     dataset_directory |-> Lit(train_dataset_dir)]

\* The eval stages as the train stages build them: a pad without
\* random=False and a repeat at the end.
EvalOps_as_train(cfg) ==
    << Call(callable_config("pipeline.OnlyJaxTypes", EmptyConfig)),
       Call(callable_config("pipeline.ConvertBirdTaxonomyLabels",
            [source_namespace |-> Lit("ebird2021"),
             target_class_list |-> Ref("target_class_list"),
             add_taxonomic_labels |-> Ref("add_taxonomic_labels")])),
       Call(callable_config("pipeline.Pad",
            [pad_size |-> Ref("eval_window_size_s"),
             add_mask |-> Ref("pad_mask")])),
       Call(callable_config("pipeline.Slice",
            [window_size |-> Ref("eval_window_size_s"),
             start |-> Lit("0.0")])),
       Call(callable_config("pipeline.Batch",
            [batch_size |-> Ref("batch_size"),
             split_across_devices |-> Lit(TRUE)])),
       Call(callable_config("pipeline.NormalizeAudio", [target_gain |-> Lit("0.2")])),
       Call(callable_config("pipeline.Repeat", EmptyConfig)) >>

EvalOps(cfg) ==
    << Call(callable_config("pipeline.OnlyJaxTypes", EmptyConfig)),
       Call(callable_config("pipeline.ConvertBirdTaxonomyLabels",
            [source_namespace |-> Lit("ebird2021"),
             target_class_list |-> Ref("target_class_list"),
             add_taxonomic_labels |-> Ref("add_taxonomic_labels")])),
       Call(callable_config("pipeline.Pad",
            [pad_size |-> Ref("eval_window_size_s"),
             random |-> Lit(FALSE),
             add_mask |-> Ref("pad_mask")])),
       Call(callable_config("pipeline.Slice",
            [window_size |-> Ref("eval_window_size_s"),
             start |-> Lit("0.0")])),
       Call(callable_config("pipeline.Batch",
            [batch_size |-> Ref("batch_size"),
             split_across_devices |-> Lit(TRUE)])),
       Call(callable_config("pipeline.NormalizeAudio", [target_gain |-> Lit("0.2")])) >>

get_supervised_eval_pipeline(cfg, eval_dataset_dir) ==
    [pipeline |-> Call(callable_config("pipeline.Pipeline", [ops |-> List(EvalOps(cfg))])),
     split |-> Lit("train"),
     tfds_data_dir |-> Ref("tfds_data_dir"),
     dataset_directory |-> Lit(eval_dataset_dir)]

MixinProbs == {"0.0", "0.75"}
TrainDatasetDirs == {"bird_taxonomy/slice_peaked"}
EvalDatasetDirs == {"soundscapes/caples"}

----------------------------------------------------------------------------
(* The state machine: one preset being put together *)

Called(op) == op \in DOMAIN calls
Record(op, args) ==
    [o \in DOMAIN calls \cup {op} |-> IF o = op THEN args ELSE calls[o]]
Parsed == DOMAIN resolved # {}

Init ==
    /\ config = EmptyConfig
    /\ init_config = EmptyConfig
    /\ train_config = EmptyConfig
    /\ eval_config = EmptyConfig
    /\ frontend = NoCall
    /\ train_dataset_config = EmptyConfig
    /\ eval_dataset_config = EmptyConfig
    /\ raised = <<>>
    /\ calls = EmptyConfig
    /\ num_overrides = 0
    /\ resolved = EmptyConfig

CallGetBaseConfig ==
    \E kwargs \in BaseKwargs :
        /\ ~Called("get_base_config")
        /\ config' = get_base_config(kwargs)
        /\ calls' = Record("get_base_config", kwargs)
        /\ UNCHANGED <<init_config, train_config, eval_config, frontend,
                       train_dataset_config, eval_dataset_config, raised,
                       num_overrides, resolved>>

\* The caller assigns a base field (a sweep or a test overriding a value).
SweepValues(field) ==
    CASE field = "sample_rate_hz" -> SampleRates
      [] field = "frame_rate_hz" -> FrameRates
      [] field = "batch_size" -> BatchSizes

SetBaseField ==
    \E field \in {"sample_rate_hz", "frame_rate_hz", "batch_size"} :
      \E v \in SweepValues(field) :
        /\ Called("get_base_config")
        /\ ~Parsed
        /\ num_overrides < MaxOverrides
        /\ config' = [config EXCEPT ![field] = v]
        /\ num_overrides' = num_overrides + 1
        /\ UNCHANGED <<init_config, train_config, eval_config, frontend,
                       train_dataset_config, eval_dataset_config, raised,
                       calls, resolved>>

CallGetBaseInitConfig ==
    \E kwargs \in InitKwargs :
        /\ Called("get_base_config")
        /\ ~Called("get_base_init_config")
        /\ ~Parsed
        /\ LET r == get_base_init_config(config, kwargs)
           IN /\ init_config' = r.ret
              /\ config' = r.config
        /\ calls' = Record("get_base_init_config", kwargs)
        /\ UNCHANGED <<train_config, eval_config, frontend,
                       train_dataset_config, eval_dataset_config, raised,
                       num_overrides, resolved>>

CallGetBaseTrainConfig ==
    \E kwargs \in TrainKwargs :
        /\ Called("get_base_config")
        /\ ~Called("get_base_train_config")
        /\ ~Parsed
        /\ LET r == get_base_train_config(config, kwargs)
           IN /\ train_config' = r.ret
              /\ config' = r.config
        /\ calls' = Record("get_base_train_config", kwargs)
        /\ UNCHANGED <<init_config, eval_config, frontend,
                       train_dataset_config, eval_dataset_config, raised,
                       num_overrides, resolved>>

CallGetBaseEvalConfig ==
    \E kwargs \in EvalKwargs :
        /\ Called("get_base_config")
        /\ ~Called("get_base_eval_config")
        /\ ~Parsed
        /\ LET r == get_base_eval_config(config, kwargs)
           IN /\ eval_config' = r.ret
              /\ config' = r.config
        /\ calls' = Record("get_base_eval_config", kwargs)
        /\ UNCHANGED <<init_config, train_config, frontend,
                       train_dataset_config, eval_dataset_config, raised,
                       num_overrides, resolved>>

CallGetPcenMelspecConfig ==
    /\ Called("get_base_config")
    /\ ~Called("get_pcen_melspec_config")
    /\ ~Parsed
    /\ LET r == get_pcen_melspec_config(config)
       IN /\ frontend' = r.ret
          /\ raised' = raised \o r.exc
    /\ calls' = Record("get_pcen_melspec_config", EmptyConfig)
    /\ UNCHANGED <<config, init_config, train_config, eval_config,
                   train_dataset_config, eval_dataset_config,
                   num_overrides, resolved>>

CallGetSupervisedTrainPipeline ==
    \E mixin_prob \in MixinProbs, train_dataset_dir \in TrainDatasetDirs :
        /\ Called("get_base_config")
        /\ ~Called("get_supervised_train_pipeline")
        /\ ~Parsed
        /\ train_dataset_config' =
              get_supervised_train_pipeline(config, mixin_prob, train_dataset_dir)
        /\ calls' = Record("get_supervised_train_pipeline",
                           [mixin_prob |-> mixin_prob,
                            train_dataset_dir |-> train_dataset_dir])
        /\ UNCHANGED <<config, init_config, train_config, eval_config, frontend,
                       eval_dataset_config, raised, num_overrides, resolved>>

CallGetSupervisedEvalPipeline ==
    \E eval_dataset_dir \in EvalDatasetDirs :
        /\ Called("get_base_config")
        /\ ~Called("get_supervised_eval_pipeline")
        /\ ~Parsed
        /\ eval_dataset_config' = get_supervised_eval_pipeline(config, eval_dataset_dir)
        /\ calls' = Record("get_supervised_eval_pipeline",
                           [eval_dataset_dir |-> eval_dataset_dir])
        /\ UNCHANGED <<config, init_config, train_config, eval_config, frontend,
                       train_dataset_config, raised, num_overrides, resolved>>

\* config_utils.parse_config: every reference is replaced by its current
\* value; nothing is constructed.  The preset is then handed on as it is.
ParseConfig ==
    /\ Called("get_base_config")
    /\ ~Parsed
    /\ resolved' =
          [config |-> config,
           init_config |-> ResolveConfig(init_config, config),
           train_config |-> ResolveConfig(train_config, config),
           eval_config |-> ResolveConfig(eval_config, config),
           frontend |-> Get(Call(frontend), config),
           train_dataset_config |-> ResolveConfig(train_dataset_config, config),
           eval_dataset_config |-> ResolveConfig(eval_dataset_config, config)]
    /\ UNCHANGED <<config, init_config, train_config, eval_config, frontend,
                   train_dataset_config, eval_dataset_config, raised, calls,
                   num_overrides>>

Next ==
    \/ CallGetBaseConfig
    \/ SetBaseField
    \/ CallGetBaseInitConfig
    \/ CallGetBaseTrainConfig
    \/ CallGetBaseEvalConfig
    \/ CallGetPcenMelspecConfig
    \/ CallGetSupervisedTrainPipeline
    \/ CallGetSupervisedEvalPipeline
    \/ ParseConfig

Spec == Init /\ [][Next]_vars

----------------------------------------------------------------------------
(* Helpers of the properties *)

Ladder == {256, 512, 1024, 2048, 4096}
MaxKernelSize == 4096

\* n is the smallest ladder value that is >= ks
SmallestFit(n, ks) ==
    /\ n \in Ladder
    /\ n >= ks
    /\ \A m \in Ladder : m >= ks => n <= m

\* the step in which builder op is called
Calling(op) == op \notin DOMAIN calls /\ op \in DOMAIN calls'

IsMelSpectrogram(c) == c.callable = "frontend.MelSpectrogram"

\* the stage list of a dataset config, as built (with its references)
OpsOf(dataset_config) == dataset_config["pipeline"][2].kwargs["ops"][2]
KindAt(ops, i) == ops[i][2].callable
KwargsAt(ops, i) == ops[i][2].kwargs
Positions(ops, kind) == {i \in DOMAIN ops : KindAt(ops, i) = kind}
IndexOf(ops, kind) == CHOOSE i \in Positions(ops, kind) : TRUE
Once(ops, kind) == Cardinality(Positions(ops, kind)) = 1

\* the stage list of a parsed dataset config (plain values)
ParsedOpsOf(dataset_config) == dataset_config["pipeline"].kwargs["ops"]
ParsedBatchSizes(dataset_config) ==
    LET ops == ParsedOpsOf(dataset_config)
    IN {ops[i].kwargs["batch_size"] :
            i \in {j \in DOMAIN ops : ops[j].callable = "pipeline.Batch"}}

----------------------------------------------------------------------------
(* C1 *)

\* C1: when get_pcen_melspec_config is called with a base whose kernel size
\* 2 * (sample_rate_hz // frame_rate_hz) is at most 4096, it returns a
\* MelSpectrogram descriptor whose stride reads sample_rate_hz //
\* frame_rate_hz, whose kernel_size reads twice that, and whose nfft is the
\* smallest of 256, 512, 1024, 2048, 4096 that is >= the kernel size
\* (boundaries inclusive).
C1_NfftIsSmallestLadderFit ==
    [][Calling("get_pcen_melspec_config") =>
         LET stride == config["sample_rate_hz"] \div config["frame_rate_hz"]
             ks == 2 * stride
         IN ks <= MaxKernelSize =>
              /\ IsMelSpectrogram(frontend')
              /\ Get(frontend'.kwargs["stride"], config') = stride
              /\ Get(frontend'.kwargs["kernel_size"], config') = ks
              /\ frontend'.kwargs["nfft"][1] = "lit"
              /\ SmallestFit(frontend'.kwargs["nfft"][2], ks)
              /\ (ks = 256 => frontend'.kwargs["nfft"][2] = 256)
              /\ (ks = 258 => frontend'.kwargs["nfft"][2] = 512)
              /\ (ks = 640 => frontend'.kwargs["nfft"][2] = 1024)]_vars

\* C1 witness: a descriptor built for kernel size exactly 256 carries nfft 256.
C1_Witness ==
    /\ IsMelSpectrogram(frontend)
    /\ num_overrides = 0
    /\ Get(frontend.kwargs["kernel_size"], config) = 256
    /\ frontend.kwargs["nfft"] = Lit(256)

----------------------------------------------------------------------------
(* C2 *)

\* C2: when get_pcen_melspec_config is called with a base whose kernel size
\* exceeds 4096, it raises an error and returns no descriptor.
C2_LargeKernelRaises ==
    [][Calling("get_pcen_melspec_config") =>
         LET ks == 2 * (config["sample_rate_hz"] \div config["frame_rate_hz"])
         IN ks > MaxKernelSize =>
              /\ frontend' = NoCall
              /\ Len(raised') = Len(raised) + 1
              /\ raised'[Len(raised')].type = "ValueError"]_vars

\* C2 witness: the call was made with kernel size 4098 (2049 // 1 doubled),
\* an error is recorded and there is no descriptor.
C2_Witness ==
    /\ Called("get_pcen_melspec_config")
    /\ num_overrides = 0
    /\ 2 * (config["sample_rate_hz"] \div config["frame_rate_hz"]) = 4098
    /\ frontend = NoCall
    /\ Len(raised) = 1

----------------------------------------------------------------------------
(* C3 *)

\* C3: whatever overrides of the base's batch_size happen before parsing,
\* and whether they happen before or after the pipelines are built, the
\* Batch stage of the train pipeline and of the eval pipeline reads the
\* base's batch_size, and after parsing holds the base's final batch_size.
C3_BatchSizeFollowsBase ==
    /\ Called("get_supervised_train_pipeline") =>
         LET ops == OpsOf(train_dataset_config)
         IN /\ Once(ops, "pipeline.Batch")
            /\ Get(KwargsAt(ops, IndexOf(ops, "pipeline.Batch"))["batch_size"], config)
                 = config["batch_size"]
            /\ Parsed =>
                 ParsedBatchSizes(resolved["train_dataset_config"]) = {config["batch_size"]}
    /\ Called("get_supervised_eval_pipeline") =>
         LET ops == OpsOf(eval_dataset_config)
         IN /\ Once(ops, "pipeline.Batch")
            /\ Get(KwargsAt(ops, IndexOf(ops, "pipeline.Batch"))["batch_size"], config)
                 = config["batch_size"]
            /\ Parsed =>
                 ParsedBatchSizes(resolved["eval_dataset_config"]) = {config["batch_size"]}

\* C3 witness: the base was created with the default batch_size 64, both
\* pipelines were built, the caller overrode batch_size to 32, and the parsed
\* pipelines both carry 32.
C3_Witness ==
    /\ Parsed
    /\ Called("get_supervised_train_pipeline")
    /\ Called("get_supervised_eval_pipeline")
    /\ "batch_size" \notin DOMAIN calls["get_base_config"]
    /\ num_overrides = 1
    /\ config["batch_size"] = 32
    /\ ParsedBatchSizes(resolved["train_dataset_config"]) = {32}
    /\ ParsedBatchSizes(resolved["eval_dataset_config"]) = {32}

----------------------------------------------------------------------------
(* C4 *)

\* C4: in the stage list of the train pipeline MixAudio comes before Pad,
\* Pad before RandomSlice, RandomSlice before Batch, Batch before Repeat;
\* the gain normalization (RandomNormalizeAudio) comes after RandomSlice;
\* and Repeat is the last stage.
C4_TrainStageOrder ==
    Called("get_supervised_train_pipeline") =>
        LET ops == OpsOf(train_dataset_config)
        IN /\ \A kind \in {"pipeline.MixAudio", "pipeline.Pad", "pipeline.RandomSlice",
                           "pipeline.Batch", "pipeline.RandomNormalizeAudio",
                           "pipeline.Repeat"} : Once(ops, kind)
           /\ IndexOf(ops, "pipeline.MixAudio") < IndexOf(ops, "pipeline.Pad")
           /\ IndexOf(ops, "pipeline.Pad") < IndexOf(ops, "pipeline.RandomSlice")
           /\ IndexOf(ops, "pipeline.RandomSlice") < IndexOf(ops, "pipeline.Batch")
           /\ IndexOf(ops, "pipeline.Batch") < IndexOf(ops, "pipeline.Repeat")
           /\ IndexOf(ops, "pipeline.RandomSlice")
                < IndexOf(ops, "pipeline.RandomNormalizeAudio")
           /\ IndexOf(ops, "pipeline.Repeat") = Len(ops)

\* C4 witness: a train pipeline built with mixin_prob 0.75 whose MixAudio
\* stage carries that probability.
C4_Witness ==
    /\ Called("get_supervised_train_pipeline")
    /\ calls["get_supervised_train_pipeline"].mixin_prob = "0.75"
    /\ LET ops == OpsOf(train_dataset_config)
       IN KwargsAt(ops, IndexOf(ops, "pipeline.MixAudio"))["mixin_prob"] = Lit("0.75")

----------------------------------------------------------------------------
(* C5 *)

\* C5: the stage list of the eval pipeline has no Repeat, Shuffle, MixAudio,
\* RandomSlice or RandomNormalizeAudio stage; its Pad stage has random=False,
\* its slice stage is Slice with start 0.0, and its normalization stage is
\* NormalizeAudio with the single argument target_gain.
C5_EvalIsFiniteAndDeterministic ==
    Called("get_supervised_eval_pipeline") =>
        LET ops == OpsOf(eval_dataset_config)
        IN /\ \A kind \in {"pipeline.Repeat", "pipeline.Shuffle", "pipeline.MixAudio",
                           "pipeline.RandomSlice", "pipeline.RandomNormalizeAudio"} :
                 Positions(ops, kind) = {}
           /\ Once(ops, "pipeline.Pad")
           /\ "random" \in DOMAIN KwargsAt(ops, IndexOf(ops, "pipeline.Pad"))
           /\ KwargsAt(ops, IndexOf(ops, "pipeline.Pad"))["random"] = Lit(FALSE)
           /\ Once(ops, "pipeline.Slice")
           /\ KwargsAt(ops, IndexOf(ops, "pipeline.Slice"))["start"] = Lit("0.0")
           /\ Once(ops, "pipeline.NormalizeAudio")
           /\ DOMAIN KwargsAt(ops, IndexOf(ops, "pipeline.NormalizeAudio")) = {"target_gain"}
           /\ KwargsAt(ops, IndexOf(ops, "pipeline.NormalizeAudio"))["target_gain"][1] = "lit"

\* C5 witness: an eval pipeline has been built and parsed, and its six
\* stages end with NormalizeAudio.
C5_Witness ==
    /\ Called("get_supervised_eval_pipeline")
    /\ Parsed
    /\ Len(ParsedOpsOf(resolved["eval_dataset_config"])) = 6
    /\ ParsedOpsOf(resolved["eval_dataset_config"])[6].callable = "pipeline.NormalizeAudio"

----------------------------------------------------------------------------
(* C6 *)

\* C6 as stated: a call of get_pcen_melspec_config with a frame_rate_hz that
\* does not divide sample_rate_hz, or with a stride <= 0, raises an error and
\* returns no descriptor.
C6_NonDividingOrZeroStrideRaises ==
    [][Calling("get_pcen_melspec_config") =>
         LET sr == config["sample_rate_hz"]
             fr == config["frame_rate_hz"]
         IN (sr % fr # 0 \/ sr \div fr <= 0) =>
              /\ frontend' = NoCall
              /\ Len(raised') = Len(raised) + 1]_vars

\* C6 amended: a call of get_pcen_melspec_config with a frame_rate_hz that
\* does not divide sample_rate_hz, or with a stride of 0, raises nothing as
\* long as the kernel size is at most 4096: it returns a descriptor whose
\* stride is the floor of sample_rate_hz / frame_rate_hz (truncated, possibly
\* 0) and whose kernel_size is twice that.
C6_NonDividingOrZeroStrideTruncates ==
    [][Calling("get_pcen_melspec_config") =>
         LET sr == config["sample_rate_hz"]
             fr == config["frame_rate_hz"]
         IN ((sr % fr # 0 \/ sr \div fr <= 0) /\ 2 * (sr \div fr) <= MaxKernelSize) =>
              /\ IsMelSpectrogram(frontend')
              /\ raised' = raised
              /\ Get(frontend'.kwargs["stride"], config') = sr \div fr
              /\ Get(frontend'.kwargs["kernel_size"], config') = 2 * (sr \div fr)]_vars

\* C6 witness: a descriptor exists for a frame rate above the sample rate;
\* its stride and kernel size read 0 and nothing was raised.
C6_Witness ==
    /\ IsMelSpectrogram(frontend)
    /\ raised = <<>>
    /\ num_overrides = 0
    /\ config["frame_rate_hz"] > config["sample_rate_hz"]
    /\ Get(frontend.kwargs["stride"], config) = 0
    /\ Get(frontend.kwargs["kernel_size"], config) = 0
    /\ frontend.kwargs["nfft"] = Lit(256)

----------------------------------------------------------------------------
(* C7 *)

\* C7: when get_pcen_melspec_config raises for a kernel size above 4096, the
\* message of the error contains that kernel size as a number.
C7_MessageNamesKernelSize ==
    [][(Calling("get_pcen_melspec_config") /\ Len(raised') > Len(raised)) =>
         LET ks == 2 * (config["sample_rate_hz"] \div config["frame_rate_hz"])
         IN raised'[Len(raised')].message
              = "Large kernel " \o ToString(ks) \o "; please define nfft."]_vars

----------------------------------------------------------------------------
(* C8 *)

\* C8: right after get_base_config(**kwargs) the config has exactly the
\* default fields plus the fields named in kwargs; every field named in
\* kwargs has the value given (whether it is a default field or a new one),
\* and every default field not named keeps its default (sample_rate_hz
\* 32000, frame_rate_hz 100, batch_size 64, ...).
C8_BaseConfigAppendAndOverride ==
    (DOMAIN calls = {"get_base_config"} /\ num_overrides = 0) =>
        LET kwargs == calls["get_base_config"]
        IN /\ DOMAIN config = DOMAIN BaseDefaults \cup DOMAIN kwargs
           /\ \A k \in DOMAIN kwargs : config[k] = kwargs[k]
           /\ \A k \in DOMAIN BaseDefaults \ DOMAIN kwargs : config[k] = BaseDefaults[k]
           /\ "sample_rate_hz" \notin DOMAIN kwargs => config["sample_rate_hz"] = 32000
           /\ "frame_rate_hz" \notin DOMAIN kwargs => config["frame_rate_hz"] = 100
           /\ "batch_size" \notin DOMAIN kwargs => config["batch_size"] = 64

\* C8 witness: get_base_config(batch_size=32, num_workers=4) gave a config
\* with the new field num_workers, the overridden batch_size and the default
\* sample rate.
C8_Witness ==
    /\ DOMAIN calls = {"get_base_config"}
    /\ num_overrides = 0
    /\ DOMAIN calls["get_base_config"] = {"batch_size", "num_workers"}
    /\ "num_workers" \in DOMAIN config
    /\ config["num_workers"] = 4
    /\ config["batch_size"] = 32
    /\ config["sample_rate_hz"] = 32000

----------------------------------------------------------------------------
(* C9 *)

\* C9: whatever the caller assigns to the base's sample_rate_hz or
\* frame_rate_hz after get_pcen_melspec_config has returned, the parsed
\* descriptor has nfft equal to the smallest ladder value that is >= its
\* parsed kernel_size.
C9_ParsedNfftFitsParsedKernel ==
    (Parsed /\ IsMelSpectrogram(resolved["frontend"])) =>
        SmallestFit(resolved["frontend"].kwargs["nfft"],
                    resolved["frontend"].kwargs["kernel_size"])

----------------------------------------------------------------------------
(* C10 *)

\* C10: a call of get_base_init_config, get_base_train_config or
\* get_base_eval_config, whatever its keyword overrides, leaves every field
\* of the base config as it was, and with it what every config and pipeline
\* already built from that base reads.
C10_DerivedOverrideLeavesBaseAlone ==
    [][(\/ Calling("get_base_init_config")
        \/ Calling("get_base_train_config")
        \/ Calling("get_base_eval_config")) =>
         /\ config' = config
         /\ ResolveConfig(init_config, config') = ResolveConfig(init_config, config)
         /\ ResolveConfig(train_config, config') = ResolveConfig(train_config, config)
         /\ ResolveConfig(eval_config, config') = ResolveConfig(eval_config, config)
         /\ ResolveConfig(train_dataset_config, config')
              = ResolveConfig(train_dataset_config, config)
         /\ ResolveConfig(eval_dataset_config, config')
              = ResolveConfig(eval_dataset_config, config)]_vars

====
